---- MODULE Spec2Model ----
(***************************************************************************)
(* A model of gsrunner (src/runner.go): the flag/config registrar of      *)
(* _Runner (New, checkName, the seven typed declare methods, Run) and the *)
(* registry loader (_Runner.loadRegistry).                                 *)
(*                                                                         *)
(* Go strings are modelled as sequences of one-character strings, so that  *)
(* bufio.Reader.ReadString, the regular expression registryRegex,          *)
(* strconv.ParseInt and filepath.Ext are computed character by character.  *)
(***************************************************************************)
EXTENDS Integers, Sequences, FiniteSets, TLC

\* ------------------------------------------------------------------------
\* Bounds of the model
\* ------------------------------------------------------------------------

\* Largest number of lines of a registry stream.
MaxLines == 2

\* Largest number of declare calls a caller makes between New and Run.
MaxDeclare == 2

\* ------------------------------------------------------------------------
\* Characters
\* ------------------------------------------------------------------------

DigitSeq == <<"0", "1", "2", "3", "4", "5", "6", "7", "8", "9">>

LowerSeq == <<"a", "b", "c", "d", "e", "f", "g", "h", "i", "j", "k", "l", "m",
              "n", "o", "p", "q", "r", "s", "t", "u", "v", "w", "x", "y", "z">>

UpperSeq == <<"A", "B", "C", "D", "E", "F", "G", "H", "I", "J", "K", "L", "M",
              "N", "O", "P", "Q", "R", "S", "T", "U", "V", "W", "X", "Y", "Z">>

Range(f) == {f[i] : i \in DOMAIN f}

Digit == Range(DigitSeq)

Lower == Range(LowerSeq)

Upper == Range(UpperSeq)

\* The character class [A-Za-z0-9_] of registryRegex.
WordChar == Digit \cup Lower \cup Upper \cup {"_"}

IndexIn(seq, c) == CHOOSE i \in DOMAIN seq : seq[i] = c

\* c - '0' for a decimal digit character.
DigitVal(c) == IndexIn(DigitSeq, c) - 1

\* lower(c) - 'a' + 10 for a letter.
LetterVal(c) == IF c \in Lower THEN IndexIn(LowerSeq, c) + 9
                ELSE IndexIn(UpperSeq, c) + 9

\* lower(c) of strconv: the ASCII lower-case form of a letter.
ToLower(c) == IF c \in Upper THEN LowerSeq[IndexIn(UpperSeq, c)] ELSE c

NL == "\n"

\* ------------------------------------------------------------------------
\* bufio.Reader.ReadString('\n') over the rest of the stream
\* ------------------------------------------------------------------------

HasNL(buf) == \E i \in 1..Len(buf) : buf[i] = NL

FirstNL(buf) == CHOOSE i \in 1..Len(buf) :
                    buf[i] = NL /\ \A j \in 1..(i - 1) : buf[j] # NL

\* The line up to and INCLUDING the delimiter and a nil error; when the
\* data ends before a delimiter, the data read so far and the error that
\* ended the stream (io.EOF or a read fault).
ReadString(buf, endErr) ==
    IF HasNL(buf)
    THEN [line |-> SubSeq(buf, 1, FirstNL(buf)),
          rest |-> SubSeq(buf, FirstNL(buf) + 1, Len(buf)),
          err  |-> "nil"]
    ELSE [line |-> buf, rest |-> <<>>, err |-> endErr]

\* ------------------------------------------------------------------------
\* registryRegex = ^(?P<name>[A-Za-z0-9_](\.[A-Za-z0-9_])+)=(?P<id>[0-9]+)$
\* ------------------------------------------------------------------------

\* [A-Za-z0-9_](\.[A-Za-z0-9_])+ : ONE word character, then one or more
\* groups of a dot and ONE word character.
RegexName(s) ==
    /\ Len(s) >= 3
    /\ Len(s) % 2 = 1
    /\ \A i \in 1..Len(s) :
          IF i % 2 = 1 THEN s[i] \in WordChar ELSE s[i] = "."

\* [0-9]+
RegexId(s) == Len(s) >= 1 /\ \A i \in 1..Len(s) : s[i] \in Digit

\* The positions of '=' that split the text into name and id.  '^' and '$'
\* are compiled without the m flag: they match at the beginning and at the
\* END OF THE TEXT only ('$' is \z, it does not match before a final '\n').
RegexSplits(text) ==
    {e \in 1..Len(text) :
        /\ text[e] = "="
        /\ RegexName(SubSeq(text, 1, e - 1))
        /\ RegexId(SubSeq(text, e + 1, Len(text)))}

\* regexp.FindStringSubmatch: ok = FALSE for a nil result; otherwise the
\* submatches indexed as in Go: 0 the whole match, 1 the group "name",
\* 2 the last repetition of the inner group (\.[A-Za-z0-9_]), 3 the group
\* "id".
FindStringSubmatch(text) ==
    IF RegexSplits(text) = {}
    THEN [ok |-> FALSE, tokens |-> [i \in 0..3 |-> <<>>]]
    ELSE LET e == CHOOSE x \in RegexSplits(text) : TRUE
         IN  [ok |-> TRUE,
              tokens |-> [i \in 0..3 |->
                  CASE i = 0 -> text
                    [] i = 1 -> SubSeq(text, 1, e - 1)
                    [] i = 2 -> SubSeq(text, e - 2, e - 1)
                    [] OTHER -> SubSeq(text, e + 1, Len(text))]]

\* ------------------------------------------------------------------------
\* strconv.ParseInt (Go standard library), as loadRegistry calls it
\* ------------------------------------------------------------------------

\* 65536: an unsigned value below 2^32 is kept as hi * Limb + lo.
Limb == 2 ^ 16

NumErr(e) == [err |-> e, hi |-> 0, lo |-> 0, us |-> FALSE]

\* The digit loop of strconv.ParseUint: n = n * base + d for each character,
\* ErrSyntax at the first character that is no digit of the base, ErrRange
\* as soon as n exceeds maxVal = 2^bitSize - 1 (hi reaches hiLimit).
RECURSIVE ScanDigits(_, _, _, _, _, _)
ScanDigits(s, base, base0, hiLimit, hi, lo) ==
    IF s = <<>>
    THEN [err |-> "nil", hi |-> hi, lo |-> lo, us |-> FALSE]
    ELSE LET c == Head(s)
         IN  IF c = "_" /\ base0
             THEN [ScanDigits(Tail(s), base, base0, hiLimit, hi, lo)
                       EXCEPT !.us = TRUE]
             ELSE IF c \notin (Digit \cup Lower \cup Upper)
             THEN NumErr("ErrSyntax")
             ELSE LET d   == IF c \in Digit THEN DigitVal(c) ELSE LetterVal(c)
                      lo1 == lo * base + d
                      hi1 == hi * base + (lo1 \div Limb)
                  IN  IF d >= base THEN NumErr("ErrSyntax")
                      ELSE IF hi1 >= hiLimit THEN NumErr("ErrRange")
                      ELSE ScanDigits(Tail(s), base, base0, hiLimit,
                                      hi1, lo1 % Limb)

\* strconv.underscoreOK: underscores only between digits (or after a base
\* prefix).  saw is "^" at the beginning, "0" after a digit, "_" after an
\* underscore, "!" after anything else.
RECURSIVE UnderscoreScan(_, _, _)
UnderscoreScan(s, hex, saw) ==
    IF s = <<>> THEN saw # "_"
    ELSE LET c == Head(s)
         IN  IF c \in Digit \/ (hex /\ ToLower(c) \in {"a", "b", "c", "d", "e", "f"})
             THEN UnderscoreScan(Tail(s), hex, "0")
             ELSE IF c = "_"
             THEN saw = "0" /\ UnderscoreScan(Tail(s), hex, "_")
             ELSE saw # "_" /\ UnderscoreScan(Tail(s), hex, "!")

HasPrefix(s) ==
    Len(s) >= 2 /\ s[1] = "0" /\ ToLower(s[2]) \in {"b", "o", "x"}

underscoreOK(s0) ==
    LET s == IF Len(s0) >= 1 /\ s0[1] \in {"-", "+"} THEN Tail(s0) ELSE s0
    IN  IF HasPrefix(s)
        THEN UnderscoreScan(SubSeq(s, 3, Len(s)), ToLower(s[2]) = "x", "0")
        ELSE UnderscoreScan(s, FALSE, "^")

\* strconv.ParseUint(s, base, bitSize) for base 0 or 2..36 and bitSize <= 32.
ParseUint(s, base, bitSize) ==
    IF s = <<>> THEN NumErr("ErrSyntax")
    ELSE LET base0  == base = 0
             pre    == base0 /\ s[1] = "0"
             long   == pre /\ Len(s) >= 3
             b      == IF ~base0 THEN base
                       ELSE IF ~pre THEN 10
                       ELSE IF long /\ ToLower(s[2]) = "b" THEN 2
                       ELSE IF long /\ ToLower(s[2]) = "o" THEN 8
                       ELSE IF long /\ ToLower(s[2]) = "x" THEN 16
                       ELSE 8
             digits == IF ~pre THEN s
                       ELSE IF long /\ ToLower(s[2]) \in {"b", "o", "x"}
                       THEN SubSeq(s, 3, Len(s))
                       ELSE Tail(s)
             r      == ScanDigits(digits, b, base0, 2 ^ (bitSize - 16), 0, 0)
         IN  IF r.err = "nil" /\ r.us /\ ~underscoreOK(s)
             THEN NumErr("ErrSyntax")
             ELSE r

\* strconv.ParseInt(s, base, bitSize): the value and the error ("nil",
\* "ErrSyntax" or "ErrRange").  cutoff = 2^(bitSize-1) = cutHi * Limb.
ParseInt(s, base, bitSize) ==
    IF s = <<>> THEN [val |-> 0, err |-> "ErrSyntax"]
    ELSE LET neg   == s[1] = "-"
             s1    == IF s[1] \in {"+", "-"} THEN Tail(s) ELSE s
             u     == ParseUint(s1, base, bitSize)
             cutHi == 2 ^ (bitSize - 17)
             maxI  == (cutHi - 1) * Limb + (Limb - 1)
         IN  IF u.err = "ErrSyntax" THEN [val |-> 0, err |-> "ErrSyntax"]
             ELSE IF ~neg /\ (u.err = "ErrRange" \/ u.hi >= cutHi)
             THEN [val |-> maxI, err |-> "ErrRange"]
             ELSE IF neg /\ (u.err = "ErrRange" \/ u.hi > cutHi
                             \/ (u.hi = cutHi /\ u.lo > 0))
             THEN [val |-> (-maxI) - 1, err |-> "ErrRange"]
             ELSE IF neg /\ u.hi = cutHi
             THEN [val |-> (-maxI) - 1, err |-> "nil"]
             ELSE [val |-> IF neg THEN -(u.hi * Limb + u.lo)
                           ELSE u.hi * Limb + u.lo,
                   err |-> "nil"]

\* ------------------------------------------------------------------------
\* _Runner.loadRegistry
\* ------------------------------------------------------------------------

\* math.MaxUint16
MaxUint16 == 65535

\* make(map[string]uint16)
EmptyMap == [k \in {} |-> 0]

MapSet(m, k, v) == [x \in (DOMAIN m) \cup {k} |-> IF x = k THEN v ELSE m[x]]

\* uint16(val) of an int64.
Uint16(val) == val % (MaxUint16 + 1)

\* The loader's locals on entry: reader over the stream (buf: what is left
\* of it, endErr: what the underlying reader returns when the data ends),
\* lines := 0, items := empty map.  stream keeps the whole input.
LoadStart(stream, endErr) ==
    [pc |-> "reading", stream |-> stream, buf |-> stream, endErr |-> endErr,
     lines |-> 0, items |-> EmptyMap, err |-> "nil", msg |-> "", index |-> 0]

\* gserrors.Panicf(err, msg ... path, lines)
LoadPanic(l, err, msg) ==
    [l EXCEPT !.pc = "failed", !.err = err, !.msg = msg, !.index = l.lines]

\* items[tokens[0]] = uint16(val): the key the loop body stores under.
ItemKey(tokens) == tokens[0]

\* ParseInt(tokens[1], 0, 32): the submatch the loop body converts.
IdText(tokens) == tokens[1]

\* One iteration of the for loop of loadRegistry.
loadRegistryIter(l) ==
    LET r == ReadString(l.buf, l.endErr)
        m == FindStringSubmatch(r.line)
        p == ParseInt(IdText(m.tokens), 0, 32)
    IN  IF r.err # "nil"
        THEN IF r.err = "EOF"
             THEN [l EXCEPT !.pc = "break", !.buf = r.rest]
             ELSE [LoadPanic(l, r.err, "read registry file error")
                       EXCEPT !.buf = r.rest]
        ELSE IF ~m.ok
        THEN [LoadPanic(l, "ErrRegistry", "invalid format") EXCEPT !.buf = r.rest]
        ELSE IF p.err # "nil"
        THEN [LoadPanic(l, p.err, "invalid format") EXCEPT !.buf = r.rest]
        ELSE IF p.val > MaxUint16
        THEN [LoadPanic(l, "ErrRegistry", "id out of range") EXCEPT !.buf = r.rest]
        ELSE [l EXCEPT !.buf = r.rest,
                       !.items = MapSet(l.items, ItemKey(m.tokens), Uint16(p.val)),
                       !.lines = l.lines + 1]

\* The whole of loadRegistry as a function of the stream: the final locals
\* (pc "break": the loop ended at io.EOF and RegistryUpdate(items) is
\* called; pc "failed": a panic was raised).
RECURSIVE loadRegistryRun(_)
loadRegistryRun(l) ==
    IF l.pc = "reading" THEN loadRegistryRun(loadRegistryIter(l)) ELSE l

loadRegistry(stream, endErr) == loadRegistryRun(LoadStart(stream, endErr))

\* ------------------------------------------------------------------------
\* Registry streams of the model
\* ------------------------------------------------------------------------

SampleLines ==
    { <<"a", ".", "b", "=", "1">>,
      <<"a", ".", "b", "=", "7">>,
      <<"a", ".", "b", ".", "c", "=", "4", "2">>,
      <<"a", "b", "c", "=", "1">>,
      <<"a", "b", ".", "c", "d", "=", "1">>,
      <<"a", "-", "b", "=", "1">>,
      <<"=", "5">>,
      <<>>,
      <<"a", ".", "b", "=", "6", "5", "5", "3", "5">>,
      <<"a", ".", "b", "=", "6", "5", "5", "3", "6">>,
      <<"a", ".", "b", "=", "2", "1", "4", "7", "4", "8", "3", "6", "4", "8">>,
      <<"1", ".", "2", "=", "3">> }

\* The lines, each followed by its newline.
RECURSIVE Terminated(_)
Terminated(ls) ==
    IF ls = <<>> THEN <<>> ELSE Head(ls) \o <<NL>> \o Terminated(Tail(ls))

LineSeqs == UNION {[1..n -> SampleLines] : n \in 0..MaxLines}

\* A stream is a sequence of lines; the last one may lack its newline.
StreamOf(ls, lastTerminated) ==
    IF ls = <<>> \/ lastTerminated THEN Terminated(ls)
    ELSE Terminated(SubSeq(ls, 1, Len(ls) - 1)) \o ls[Len(ls)]

EndErrs == {"EOF", "EIO"}

\* ------------------------------------------------------------------------
\* Values: Go strings are character sequences, numbers are integers
\* ------------------------------------------------------------------------

\* An interface{} value held by the configuration store: the dynamic type
\* and the value (str for a string, num for a number).
StrV(s) == [type |-> "string", str |-> s, num |-> 0]

NumV(t, n) == [type |-> t, str |-> <<>>, num |-> n]

JsonPath == <<"c", ".", "j", "s", "o", "n">>

YamlPath == <<"c", ".", "y", "a", "m", "l">>

\* filepath.Ext: the suffix beginning at the final dot of the last path
\* element, "" if there is none.
RECURSIVE ExtFrom(_, _)
ExtFrom(path, i) ==
    IF i < 1 \/ path[i] = "/" THEN <<>>
    ELSE IF path[i] = "." THEN SubSeq(path, i, Len(path))
    ELSE ExtFrom(path, i - 1)

Ext(path) == ExtFrom(path, Len(path))

\* ------------------------------------------------------------------------
\* The registrar: _Runner, checkName and the typed declare methods
\* ------------------------------------------------------------------------

\* The _Runner struct after the make() calls of New: seven tables from a
\* short name to the flag's value pointer, and fullname from a short name
\* to its fully-qualified name.  A pointer returned by flag.String and its
\* kin is modelled by the name of the flag variable it points to.
EmptyRunner ==
    [flagString       |-> EmptyMap,
     flagInt          |-> EmptyMap,
     flagUint         |-> EmptyMap,
     flagFloat32      |-> EmptyMap,
     flagFloat64      |-> EmptyMap,
     flagSecond       |-> EmptyMap,
     flagMilliseconds |-> EmptyMap,
     fullname         |-> EmptyMap]

Tables == {"flagString", "flagInt", "flagUint", "flagFloat32", "flagFloat64",
           "flagSecond", "flagMilliseconds"}

\* The dynamic type of *v in each table (FlagFloat32 registers a
\* flag.Float64 too).
TableType(t) ==
    CASE t = "flagString" -> "string"
      [] t = "flagInt" -> "int64"
      [] t \in {"flagFloat32", "flagFloat64"} -> "float64"
      [] OTHER -> "uint64"

\* flag.String / Int64 / Uint64 / Float64 (name, defaultVal, description):
\* a new flag variable holding the default, not yet set.
FlagVar(fs, name, def) ==
    MapSet(fs, name, [DefValue |-> def, Value |-> def, set |-> FALSE])

DeclResult(r, fs, err, msg) ==
    [runner |-> r, flagset |-> fs, err |-> err, msg |-> msg]

\* checkName without the scan of the registered fully-qualified names.
checkNameShortOnly(r, name, fullname) ==
    IF name \in DOMAIN r.fullname
    THEN [runner |-> r, err |-> "ErrFlag", msg |-> "duplicate flag name"]
    ELSE [runner |-> [r EXCEPT !.fullname = MapSet(@, name, fullname)],
          err |-> "nil", msg |-> ""]

\* checkName: a panic with ErrFlag when the short name is a key of
\* fullname or the fully-qualified name is one of its values; otherwise
\* fullname[name] = fullname.
checkName(r, name, fullname) ==
    IF name \in DOMAIN r.fullname
    THEN [runner |-> r, err |-> "ErrFlag", msg |-> "duplicate flag name"]
    ELSE IF \E k \in DOMAIN r.fullname : r.fullname[k] = fullname
    THEN [runner |-> r, err |-> "ErrFlag", msg |-> "duplicate flag fullname"]
    ELSE [runner |-> [r EXCEPT !.fullname = MapSet(@, name, fullname)],
          err |-> "nil", msg |-> ""]

\* The body shared by the seven declare methods: checkName, then
\* runner.<table>[name] = flag.<Type>(name, defaultVal, description).
\* A panic of checkName leaves the method before anything is stored.  The
\* flag package panics ("flag redefined") when flag.CommandLine already
\* has a flag of that name; checkName has stored fullname[name] by then.
Declare(table, r, fs, name, fullname, def) ==
    LET c == checkName(r, name, fullname)
    IN  IF c.err # "nil"
        THEN DeclResult(r, fs, c.err, c.msg)
        ELSE IF name \in DOMAIN fs
        THEN DeclResult(c.runner, fs, "panic", "flag redefined")
        ELSE DeclResult([c.runner EXCEPT ![table] = MapSet(@, name, name)],
                        FlagVar(fs, name, def), "nil", "")

FlagString(r, fs, name, fullname, def) ==
    Declare("flagString", r, fs, name, fullname, def)

FlagInt(r, fs, name, fullname, def) ==
    Declare("flagInt", r, fs, name, fullname, def)

FlagUint(r, fs, name, fullname, def) ==
    Declare("flagUint", r, fs, name, fullname, def)

FlagFloat32(r, fs, name, fullname, def) ==
    Declare("flagFloat32", r, fs, name, fullname, def)

FlagFloat64(r, fs, name, fullname, def) ==
    Declare("flagFloat64", r, fs, name, fullname, def)

Seconds(r, fs, name, fullname, def) ==
    Declare("flagSecond", r, fs, name, fullname, def)

Milliseconds(r, fs, name, fullname, def) ==
    Declare("flagMilliseconds", r, fs, name, fullname, def)

\* The five flags New declares, in order, each with the default "".
Predeclared ==
    << <<"log", "gsrunner.log">>,
       <<"level", "gsrunner.log.level">>,
       <<"pprof", "gsrunner.pprof">>,
       <<"config", "gsrunner.config">>,
       <<"registry", "gsrunner.registry">> >>

RECURSIVE NewFrom(_, _)
NewFrom(d, i) ==
    IF i > Len(Predeclared) THEN d
    ELSE NewFrom(FlagString(d.runner, d.flagset,
                            Predeclared[i][1], Predeclared[i][2],
                            StrV(<<>>)),
                 i + 1)

\* New(name): the runner and the flag set after the chain of FlagString
\* calls.
New == NewFrom(DeclResult(EmptyRunner, EmptyMap, "nil", ""), 1)

\* runner.fullname[k] as Run reads it: "" for a missing key.
FullnameOf(r, k) == IF k \in DOMAIN r.fullname THEN r.fullname[k] ELSE ""

\* The short names registered in some table.
Declared(r) == UNION {DOMAIN r[t] : t \in Tables}

\* ------------------------------------------------------------------------
\* Inputs of the model
\* ------------------------------------------------------------------------

\* Short and fully-qualified names a caller declares; "log" and
\* "gsrunner.log" collide with a flag New declares.
ShortNames == {"log", "port", "ttl"}

FullNames == {"gsrunner.log", "app.port", "app.ttl"}

StrDefaults == {<<"d">>}

NumDefaults == {3}

\* Flags other code of the process may have defined in flag.CommandLine
\* before the caller declares its Options.
ForeignFlags == {"ttl"}

\* flag.CommandLine with the flags of names defined by other code.
WithForeign(fs, names) ==
    [k \in DOMAIN fs \cup names |->
        IF k \in DOMAIN fs THEN fs[k]
        ELSE [DefValue |-> StrV(<<>>), Value |-> StrV(<<>>), set |-> FALSE]]

\* The values a flag can be given on the command line.
ArgVals(name, type) ==
    CASE name = "config" -> {StrV(JsonPath), StrV(YamlPath)}
      [] name = "log" -> {StrV(<<"l">>)}
      [] name = "registry" -> {StrV(<<"r">>)}
      [] name \in {"level", "pprof"} -> {}
      [] OTHER -> IF type = "string" THEN {StrV(<<"v">>)} ELSE {NumV(type, 7)}

\* The command lines over the flags of a flag set: each flag is absent or
\* given with one of its values.
RECURSIVE ArgSets(_, _)
ArgSets(fs, names) ==
    IF names = {} THEN {EmptyMap}
    ELSE LET k    == CHOOSE x \in names : TRUE
             rest == ArgSets(fs, names \ {k})
         IN  rest \cup {MapSet(a, k, v) :
                           a \in rest, v \in ArgVals(k, fs[k].Value.type)}

\* The contents a JSON config file can have (JSON numbers are float64).
ConfigFiles ==
    { EmptyMap,
      ("gsrunner.registry" :> StrV(<<"f">>)),
      ("gsrunner.log" :> StrV(<<"g">>)) @@ ("gsrunner.log.level" :> StrV(<<"i">>))
          @@ ("app.port" :> NumV("float64", 9)) }

\* The registry files Run can open: the stream and the error that ends it.
RunFiles ==
    { [stream |-> <<>>, endErr |-> "EOF"],
      [stream |-> <<"a", ".", "b", "=", "1">>, endErr |-> "EOF"],
      [stream |-> <<"a", ".", "b", "=", "1", NL>>, endErr |-> "EOF"],
      [stream |-> <<"a", ".", "b", "=">>, endErr |-> "EIO"] }

\* ------------------------------------------------------------------------
\* State
\* ------------------------------------------------------------------------

VARIABLES
    runner,    \* the _Runner struct
    flagset,   \* flag.CommandLine: name -> [DefValue, Value, set]
    call,      \* the most recent call of the runner's API and its outcome
    calls,     \* number of declare calls made by the caller
    pc,        \* position in Run ("setup" before Run is called)
    store,     \* the gsconfig store: key -> value
    config,    \* the JSON config file gsconfig.LoadJSON has loaded, if any
    loc,       \* Run's locals logroot, loglevel, registryFile
    ld,        \* loadRegistry's locals
    updates,   \* the mappings handed to gorpc.RegistryUpdate, in call order
    trace,     \* the calls Run and loadRegistry made to their collaborators
    panic,     \* the panic in flight ("none" when there is none)
    fault,     \* the step of Run that raised a panic ("none" so far)
    exit       \* how Run left: "none" (not yet), "returned" or "panicked"

vars == <<runner, flagset, call, calls, pc, store, config, loc, ld, updates,
          trace, panic, fault, exit>>

LoadIdle ==
    [pc |-> "idle", stream |-> <<>>, buf |-> <<>>, endErr |-> "EOF",
     lines |-> 0, items |-> EmptyMap, err |-> "nil", msg |-> "", index |-> 0]

NoConfig == [loaded |-> FALSE, file |-> EmptyMap]

NoLocals == [logroot |-> <<>>, loglevel |-> <<>>, registryFile |-> <<>>]

CallRec(op, name, fullname, err, msg) ==
    [op |-> op, name |-> name, fullname |-> fullname, err |-> err, msg |-> msg]

\* The state after runner := New(name).
Init ==
    /\ runner = New.runner
    /\ \E names \in SUBSET ForeignFlags :
          flagset = WithForeign(New.flagset, names)
    /\ call = CallRec("New", "", "", New.err, New.msg)
    /\ calls = 0
    /\ pc = "setup"
    /\ store = EmptyMap
    /\ config = NoConfig
    /\ loc = NoLocals
    /\ ld = LoadIdle
    /\ updates = <<>>
    /\ trace = <<>>
    /\ panic = "none"
    /\ fault = "none"
    /\ exit = "none"

runVars == <<pc, store, config, loc, ld, updates, trace, panic, fault, exit>>

\* ------------------------------------------------------------------------
\* Declare calls made by the caller between New and Run
\* ------------------------------------------------------------------------

\* The caller sees the method return the runner, or panic with ErrFlag or
\* with the flag package's "flag redefined" (a caller that recovers the
\* panic can go on declaring).
DeclareCall(op, d, name, fullname) ==
    /\ runner' = d.runner
    /\ flagset' = d.flagset
    /\ call' = CallRec(op, name, fullname, d.err, d.msg)
    /\ calls' = calls + 1
    /\ UNCHANGED runVars

FlagStringCall ==
    /\ pc = "setup" /\ calls < MaxDeclare
    /\ \E name \in ShortNames, fullname \in FullNames, def \in StrDefaults :
          DeclareCall("FlagString",
              FlagString(runner, flagset, name, fullname, StrV(def)),
              name, fullname)

FlagIntCall ==
    /\ pc = "setup" /\ calls < MaxDeclare
    /\ \E name \in ShortNames, fullname \in FullNames, def \in NumDefaults :
          DeclareCall("FlagInt",
              FlagInt(runner, flagset, name, fullname, NumV("int64", def)),
              name, fullname)

FlagUintCall ==
    /\ pc = "setup" /\ calls < MaxDeclare
    /\ \E name \in ShortNames, fullname \in FullNames, def \in NumDefaults :
          DeclareCall("FlagUint",
              FlagUint(runner, flagset, name, fullname, NumV("uint64", def)),
              name, fullname)

FlagFloat32Call ==
    /\ pc = "setup" /\ calls < MaxDeclare
    /\ \E name \in ShortNames, fullname \in FullNames, def \in NumDefaults :
          DeclareCall("FlagFloat32",
              FlagFloat32(runner, flagset, name, fullname, NumV("float64", def)),
              name, fullname)

FlagFloat64Call ==
    /\ pc = "setup" /\ calls < MaxDeclare
    /\ \E name \in ShortNames, fullname \in FullNames, def \in NumDefaults :
          DeclareCall("FlagFloat64",
              FlagFloat64(runner, flagset, name, fullname, NumV("float64", def)),
              name, fullname)

SecondsCall ==
    /\ pc = "setup" /\ calls < MaxDeclare
    /\ \E name \in ShortNames, fullname \in FullNames, def \in NumDefaults :
          DeclareCall("Seconds",
              Seconds(runner, flagset, name, fullname, NumV("uint64", def)),
              name, fullname)

MillisecondsCall ==
    /\ pc = "setup" /\ calls < MaxDeclare
    /\ \E name \in ShortNames, fullname \in FullNames, def \in NumDefaults :
          DeclareCall("Milliseconds",
              Milliseconds(runner, flagset, name, fullname, NumV("uint64", def)),
              name, fullname)

\* ------------------------------------------------------------------------
\* The collaborators of Run: flag, gsconfig, gorpc
\*
\* These packages are imported by runner.go; each is modelled by what its
\* call in runner.go relies on: the store of gsconfig is a map from key to
\* value that LoadJSON merges a file into, Update sets and String reads.
\* ------------------------------------------------------------------------

\* *v for a pointer v stored in one of the runner's tables.
Deref(fs, v) == fs[v].Value

\* flag.Parse() over a command line: every flag given is set to its value.
Parse(fs, args) ==
    [k \in DOMAIN fs |->
        IF k \in DOMAIN args
        THEN [fs[k] EXCEPT !.Value = args[k], !.set = TRUE]
        ELSE fs[k]]

\* gsconfig.LoadJSON: the keys of the file are merged into the store.
LoadJSON(st, file) ==
    [k \in (DOMAIN st) \cup (DOMAIN file) |->
        IF k \in DOMAIN file THEN file[k] ELSE st[k]]

\* gsconfig.Update(key, val)
Update(st, key, val) == MapSet(st, key, val)

\* gsconfig.String(key, defaultVal)
String(st, key, def) ==
    IF key \in DOMAIN st /\ st[key].type = "string" THEN st[key].str ELSE def

\* for k, v := range runner.<table> { gsconfig.Update(runner.fullname[k], *v) }
\* (the fully-qualified names of one table are pairwise different, so the
\* order of the iteration does not show in the result).
RECURSIVE WriteTable(_, _, _, _, _)
WriteTable(st, r, fs, t, keys) ==
    IF keys = {} THEN st
    ELSE LET k == CHOOSE x \in keys : TRUE
         IN  WriteTable(Update(st, FullnameOf(r, k), Deref(fs, r[t][k])),
                        r, fs, t, keys \ {k})

TableOrder == <<"flagString", "flagInt", "flagUint", "flagFloat32",
                "flagFloat64", "flagSecond", "flagMilliseconds">>

RECURSIVE WriteFrom(_, _, _, _)
WriteFrom(st, r, fs, i) ==
    IF i > Len(TableOrder) THEN st
    ELSE WriteFrom(WriteTable(st, r, fs, TableOrder[i], DOMAIN r[TableOrder[i]]),
                   r, fs, i + 1)

\* The write loops leaving alone every key the store already holds.
RECURSIVE WriteAbsent(_, _, _, _)
WriteAbsent(st, r, fs, keys) ==
    IF keys = {} THEN st
    ELSE LET k == CHOOSE x \in keys : TRUE
         IN  WriteAbsent(IF FullnameOf(r, k) \in DOMAIN st THEN st
                         ELSE Update(st, FullnameOf(r, k), Deref(fs, k)),
                         r, fs, keys \ {k})

WriteFlagsKeepConfig(st, r, fs) == WriteAbsent(st, r, fs, Declared(r))

\* The seven write loops of Run, in source order.
WriteFlags(st, r, fs) == WriteFrom(st, r, fs, 1)

Log(events) == trace' = trace \o events

\* ------------------------------------------------------------------------
\* Run
\* ------------------------------------------------------------------------

\* A panic raised in the body of Run: control passes to the deferred
\* function.
Raise(value, step) ==
    /\ panic' = value
    /\ fault' = step
    /\ pc' = "deferred"

\* Run is called: the deferred function is registered and flag.Parse()
\* reads the command line.  The command line names declared flags only
\* (for any other, package flag ends the process inside flag.Parse).
RunParse ==
    /\ pc = "setup"
    /\ \E args \in ArgSets(flagset, DOMAIN flagset) :
          flagset' = Parse(flagset, args)
    /\ call' = CallRec("Run", "", "", "nil", "")
    /\ pc' = "config"
    /\ Log(<<"flag.Parse">>)
    /\ UNCHANGED <<runner, calls, store, config, loc, ld, updates, panic, fault,
                   exit>>

\* The switch treating every unrecognized extension as a fatal error.
RunConfigStrict ==
    /\ pc = "config"
    /\ LET configpath == Deref(flagset, runner.flagString["config"]).str
       IN  IF configpath = <<>>
           THEN /\ pc' = "write"
                /\ UNCHANGED <<store, config, trace, panic, fault>>
           ELSE IF Ext(configpath) = <<".", "j", "s", "o", "n">>
           THEN \E file \in ConfigFiles :
                   /\ store' = LoadJSON(store, file)
                   /\ config' = [loaded |-> TRUE, file |-> file]
                   /\ Log(<<"LoadJSON">>)
                   /\ pc' = "write"
                   /\ UNCHANGED <<panic, fault>>
           ELSE /\ Log(<<"W can't load config file">>)
                /\ Raise("ErrConfig", "config")
                /\ UNCHANGED <<store, config>>
    /\ UNCHANGED <<runner, flagset, call, calls, loc, ld, updates, exit>>

\* configpath := *runner.flagString["config"] and the switch on its
\* extension.
RunConfig ==
    /\ pc = "config"
    /\ LET configpath == Deref(flagset, runner.flagString["config"]).str
       IN  IF configpath = <<>>
           THEN /\ pc' = "write"
                /\ UNCHANGED <<store, config, trace, panic, fault>>
           ELSE IF Ext(configpath) = <<".", "j", "s", "o", "n">>
           THEN \/ /\ Log(<<"LoadJSON">>)
                   /\ Raise("ErrConfig", "config")
                   /\ UNCHANGED <<store, config>>
                \/ \E file \in ConfigFiles :
                      /\ store' = LoadJSON(store, file)
                      /\ config' = [loaded |-> TRUE, file |-> file]
                      /\ Log(<<"LoadJSON">>)
                      /\ pc' = "write"
                      /\ UNCHANGED <<panic, fault>>
           ELSE /\ Log(<<"W can't load config file">>)
                /\ pc' = "write"
                /\ UNCHANGED <<store, config, panic, fault>>
    /\ UNCHANGED <<runner, flagset, call, calls, loc, ld, updates, exit>>

\* The seven loops that write every flag into the configuration store.
RunWrite ==
    /\ pc = "write"
    /\ store' = WriteFlags(store, runner, flagset)
    /\ Log(<<"Update">>)
    /\ pc' = "read"
    /\ UNCHANGED <<runner, flagset, call, calls, config, loc, ld, updates,
                   panic, fault, exit>>

\* logroot, loglevel and registryFile are read back from the store.
RunRead ==
    /\ pc = "read"
    /\ loc' = [logroot      |-> String(store, "gsrunner.log", <<>>),
               loglevel     |-> String(store, "gsrunner.log.level", <<>>),
               registryFile |-> String(store, "gsrunner.registry", <<>>)]
    /\ pc' = "logging"
    /\ UNCHANGED <<runner, flagset, call, calls, store, config, ld, updates,
                   trace, panic, fault, exit>>

\* The logging sink and the log level.
RunLogging ==
    /\ pc = "logging"
    /\ Log((IF loc.logroot # <<>> THEN <<"SetLogDir", "NewSink">> ELSE <<>>)
           \o (IF loc.loglevel # <<>> THEN <<"NewFlags">> ELSE <<>>))
    /\ pc' = "registry"
    /\ UNCHANGED <<runner, flagset, call, calls, store, config, loc, ld,
                   updates, panic, fault, exit>>

\* if registryFile != "": os.Open and the call of loadRegistry.
RunRegistry ==
    /\ pc = "registry"
    /\ IF loc.registryFile = <<>>
       THEN /\ pc' = "main"
            /\ UNCHANGED <<ld, trace, panic, fault>>
       ELSE \/ /\ Log(<<"I load registry", "os.Open">>)
               /\ Raise("open error", "open")
               /\ UNCHANGED ld
            \/ \E f \in RunFiles :
                  /\ ld' = LoadStart(f.stream, f.endErr)
                  /\ Log(<<"I load registry", "os.Open">>)
                  /\ pc' = "loadRegistry"
                  /\ UNCHANGED <<panic, fault>>
    /\ UNCHANGED <<runner, flagset, call, calls, store, config, loc, updates,
                   exit>>

\* The loop handing the mapping to gorpc.RegistryUpdate in every iteration.
LoadStepIncremental ==
    /\ ld.pc = "reading"
    /\ LET l == loadRegistryIter(ld)
       IN  /\ ld' = IF l.pc = "break" THEN [l EXCEPT !.pc = "done"] ELSE l
           /\ updates' = Append(updates, l.items)
           /\ Log(<<"RegistryUpdate">>)
    /\ UNCHANGED <<runner, flagset, call, calls, pc, store, config, loc, panic,
                   fault, exit>>

\* One iteration of the loop of loadRegistry; the iteration that reads
\* io.EOF leaves the loop and calls gorpc.RegistryUpdate(items).
LoadStep ==
    /\ ld.pc = "reading"
    /\ LET l == loadRegistryIter(ld)
       IN  IF l.pc = "break"
           THEN /\ ld' = [l EXCEPT !.pc = "done"]
                /\ updates' = Append(updates, l.items)
                /\ Log(<<"RegistryUpdate">>)
           ELSE /\ ld' = l
                /\ UNCHANGED <<updates, trace>>
    /\ UNCHANGED <<runner, flagset, call, calls, pc, store, config, loc, panic,
                   fault, exit>>

\* loadRegistry's failure swallowed: Run goes on to the entry point.
RunRegistryReturnAlways ==
    /\ pc = "loadRegistry"
    /\ ld.pc \in {"done", "failed"}
    /\ Log(<<"I load registry success">>)
    /\ pc' = "main"
    /\ UNCHANGED <<runner, flagset, call, calls, store, config, loc, ld,
                   updates, panic, fault, exit>>

\* loadRegistry returns to Run, or its panic unwinds into Run.
RunRegistryReturn ==
    /\ pc = "loadRegistry"
    /\ ld.pc \in {"done", "failed"}
    /\ IF ld.pc = "failed"
       THEN /\ Raise(ld.err, "loadRegistry")
            /\ UNCHANGED trace
       ELSE /\ Log(<<"I load registry success">>)
            /\ pc' = "main"
            /\ UNCHANGED <<panic, fault>>
    /\ UNCHANGED <<runner, flagset, call, calls, store, config, loc, ld,
                   updates, exit>>

\* runner.I("service started.") and main(runner): the entry point returns
\* or panics.
RunMain ==
    /\ pc = "main"
    /\ Log(<<"I service started", "main">>)
    /\ \/ /\ pc' = "deferred"
          /\ UNCHANGED <<panic, fault>>
       \/ Raise("main panic", "main")
    /\ UNCHANGED <<runner, flagset, call, calls, store, config, loc, ld,
                   updates, exit>>

\* The cleanup done only on the normal path: no "stopped" message and no
\* Join when a panic is in flight.
RunDeferredJoinOnReturn ==
    /\ pc = "deferred"
    /\ Log(IF panic # "none" THEN <<"E catch unknown exception">>
           ELSE <<"I service stopped", "Join">>)
    /\ panic' = "none"
    /\ exit' = "returned"
    /\ pc' = "done"
    /\ UNCHANGED <<runner, flagset, call, calls, store, config, loc, ld,
                   updates, fault>>

\* The deferred function without recover(): the panic leaves Run.
RunDeferredNoRecover ==
    /\ pc = "deferred"
    /\ Log(<<"I service stopped", "Join">>)
    /\ exit' = IF panic # "none" THEN "panicked" ELSE "returned"
    /\ pc' = "done"
    /\ UNCHANGED <<runner, flagset, call, calls, store, config, loc, ld,
                   updates, panic, fault>>

\* The deferred function of Run: recover() ends any panic in flight and
\* logs it; then the "stopped" message and gslogger.Join().  Run returns
\* to its caller.
RunDeferred ==
    /\ pc = "deferred"
    /\ Log((IF panic # "none" THEN <<"E catch unknown exception">> ELSE <<>>)
           \o <<"I service stopped", "Join">>)
    /\ panic' = "none"
    /\ exit' = "returned"
    /\ pc' = "done"
    /\ UNCHANGED <<runner, flagset, call, calls, store, config, loc, ld,
                   updates, fault>>

\* ------------------------------------------------------------------------
\* Specifications
\* ------------------------------------------------------------------------

\* A caller declares flags after New, then calls Run.
Next ==
    \/ FlagStringCall
    \/ FlagIntCall
    \/ FlagUintCall
    \/ FlagFloat32Call
    \/ FlagFloat64Call
    \/ SecondsCall
    \/ MillisecondsCall
    \/ RunParse
    \/ RunConfig
    \/ RunWrite
    \/ RunRead
    \/ RunLogging
    \/ RunRegistry
    \/ LoadStep
    \/ RunRegistryReturn
    \/ RunMain
    \/ RunDeferred

Spec == Init /\ [][Next]_vars

\* loadRegistry called on a stream of up to MaxLines lines.
InitLoad ==
    /\ runner = New.runner
    /\ flagset = New.flagset
    /\ call = CallRec("loadRegistry", "", "", "nil", "")
    /\ calls = 0
    /\ pc = "direct"
    /\ store = EmptyMap
    /\ config = NoConfig
    /\ loc = NoLocals
    /\ \E ls \in LineSeqs, t \in BOOLEAN, e \in EndErrs :
          ld = LoadStart(StreamOf(ls, t), e)
    /\ updates = <<>>
    /\ trace = <<>>
    /\ panic = "none"
    /\ fault = "none"
    /\ exit = "none"

NextLoad == LoadStep

SpecLoad == InitLoad /\ [][NextLoad]_vars

\* ------------------------------------------------------------------------
\* The registry grammar as the specification states it
\* ------------------------------------------------------------------------

\* The lines of a stream without their newlines; characters after the last
\* newline form a final, unterminated line.
RECURSIVE StreamLines(_)
StreamLines(buf) ==
    IF buf = <<>> THEN <<>>
    ELSE IF HasNL(buf)
    THEN <<SubSeq(buf, 1, FirstNL(buf) - 1)>>
             \o StreamLines(SubSeq(buf, FirstNL(buf) + 1, Len(buf)))
    ELSE <<buf>>

\* The position of '=' in a line that has exactly one, 0 otherwise.
EqPos(line) ==
    IF Cardinality({i \in 1..Len(line) : line[i] = "="}) = 1
    THEN CHOOSE i \in 1..Len(line) : line[i] = "="
    ELSE 0

NamePart(line) == SubSeq(line, 1, EqPos(line) - 1)

IdPart(line) == SubSeq(line, EqPos(line) + 1, Len(line))

\* NAME: one or more '.'-separated segments, each of one or more
\* characters of [A-Za-z0-9_].
GrammarName(s) ==
    /\ Len(s) >= 1
    /\ \A i \in 1..Len(s) : s[i] \in WordChar \cup {"."}
    /\ s[1] # "." /\ s[Len(s)] # "."
    /\ \A i \in 1..(Len(s) - 1) : ~(s[i] = "." /\ s[i + 1] = ".")

\* NAME=ID with ID one or more decimal digits.
GrammarLine(line) ==
    /\ EqPos(line) > 0
    /\ GrammarName(NamePart(line))
    /\ RegexId(IdPart(line))

\* The decimal value of a digit string, capped at MaxUint16 + 1.
RECURSIVE DecimalFrom(_, _)
DecimalFrom(s, acc) ==
    IF s = <<>> THEN acc
    ELSE DecimalFrom(Tail(s),
             IF acc * 10 + DigitVal(Head(s)) > MaxUint16
             THEN MaxUint16 + 1 ELSE acc * 10 + DigitVal(Head(s)))

Decimal(s) == DecimalFrom(s, 0)

\* A line of the form NAME=ID whose id fits 16 bits.
ValidLine(line) == GrammarLine(line) /\ Decimal(IdPart(line)) <= MaxUint16

\* The mapping a sequence of valid lines denotes (a later line wins).
RECURSIVE MappingFrom(_, _)
MappingFrom(ls, m) ==
    IF ls = <<>> THEN m
    ELSE MappingFrom(Tail(ls),
             MapSet(m, NamePart(Head(ls)), Decimal(IdPart(Head(ls)))))

MappingOf(ls) == MappingFrom(ls, EmptyMap)

\* loadRegistry has returned or panicked.
LoadOver == ld.pc \in {"done", "failed"}

InputLines == StreamLines(ld.stream)

\* ------------------------------------------------------------------------
\* Claims about the registry loader (checked under SpecLoad)
\* ------------------------------------------------------------------------

\* The stream of the load is N >= 0 valid lines followed by one invalid line.
ValidThenInvalid ==
    /\ Len(InputLines) >= 1
    /\ \A i \in 1..(Len(InputLines) - 1) : ValidLine(InputLines[i])
    /\ ~ValidLine(InputLines[Len(InputLines)])

\* C1: no partial publish.  A load that rejected a line or met a read
\* fault has made no call of RegistryUpdate, and a load of N valid lines
\* followed by one invalid line ends failed with no call of RegistryUpdate.
C1_NoPartialPublish ==
    /\ ld.pc \in {"reading", "failed"} => updates = <<>>
    /\ LoadOver /\ ValidThenInvalid => ld.pc = "failed" /\ updates = <<>>

\* C2: a stream whose lines all have the form NAME=ID with an id of at most
\* 65535 loads successfully, and the mapping handed to RegistryUpdate maps
\* each NAME (the text before '=') to the decimal value of its ID.
C2_ValidStreamPublished ==
    LoadOver /\ ld.endErr = "EOF" /\ Len(InputLines) >= 1
             /\ (\A i \in 1..Len(InputLines) : ValidLine(InputLines[i]))
        => ld.pc = "done" /\ updates = <<MappingOf(InputLines)>>

\* The loop has handled the first line of the stream, which ended in a
\* newline.
FirstLineHandled ==
    /\ HasNL(ld.stream)
    /\ Len(ld.buf) < Len(ld.stream)

\* The load stopped at the first line with the format error.
FormatErrorAtFirst ==
    /\ ld.pc = "failed"
    /\ ld.err = "ErrRegistry" /\ ld.msg = "invalid format"
    /\ Len(ld.buf) = Len(ld.stream) - FirstNL(ld.stream)

\* C3: the loader accepts a line (its newline stripped) if and only if it
\* matches NAME=ID, NAME one or more '.'-separated segments of one or more
\* characters of [A-Za-z0-9_], ID one or more digits; any other line is
\* rejected with the format error.
C3_AcceptsIffGrammar ==
    FirstLineHandled =>
        (GrammarLine(InputLines[1]) <=> ~FormatErrorAtFirst)

\* ------------------------------------------------------------------------
\* Claims about the registrar and Run (checked under Spec)
\* ------------------------------------------------------------------------

Count(seq, e) == Cardinality({i \in 1..Len(seq) : seq[i] = e})

\* The tables a short name is registered in.
TablesOf(r, k) == {t \in Tables : k \in DOMAIN r[t]}

\* No two registered Options share a short name or a fully-qualified name.
UniqueNames ==
    /\ \A k \in Declared(runner) :
          Cardinality(TablesOf(runner, k)) = 1 /\ k \in DOMAIN runner.fullname
    /\ \A k1, k2 \in DOMAIN runner.fullname :
          k1 # k2 => runner.fullname[k1] # runner.fullname[k2]

\* This step is a declare call of the caller.
DeclareStep == calls' = calls + 1

\* The names of the call of this step are already registered.
AlreadyRegistered ==
    \/ call'.name \in DOMAIN runner.fullname
    \/ \E k \in DOMAIN runner.fullname : runner.fullname[k] = call'.fullname

\* A declare call aborts with ErrFlag exactly when one of its names is
\* registered; it then registers nothing, and no flag has been parsed.
DeclareOutcome ==
    DeclareStep =>
        /\ (call'.err = "ErrFlag") <=> AlreadyRegistered
        /\ AlreadyRegistered =>
              /\ runner' = runner /\ flagset' = flagset
              /\ Count(trace, "flag.Parse") = 0
              /\ \A k \in DOMAIN flagset : ~flagset[k].set
        /\ ~AlreadyRegistered =>
              /\ call'.err = "nil" => call'.name \in Declared(runner')
              /\ runner'.fullname[call'.name] = call'.fullname

\* C4: after any sequence of declare calls no two registered Options share
\* a short name or a fully-qualified name; a declare call one of whose names
\* is already registered aborts with ErrFlag instead of registering, at the
\* call itself, before Run has parsed any flag.
C4_UniqueNamesEnforced == [](UniqueNames) /\ [][DeclareOutcome]_vars

\* A duplicate declare call has aborted after another one registered a flag.
C4_Witness ==
    /\ call.err = "ErrFlag"
    /\ calls = 2
    /\ Cardinality(Declared(runner)) = Len(Predeclared) + 1

\* C5: after the write step of Run and before the log path, the log level
\* and the registry path are read, the store holds under the fully-qualified
\* name of every declared Option the parsed command-line value of its flag,
\* whatever a loaded config file had set for that key.
C5_FlagsOverrideConfig ==
    pc = "read" =>
        \A k \in Declared(runner) :
            /\ runner.fullname[k] \in DOMAIN store
            /\ store[runner.fullname[k]] = flagset[k].Value

\* The flag -log was given, a loaded config file had set gsrunner.log to
\* another value, and the write step has run.
C5_Witness ==
    /\ pc = "read"
    /\ config.loaded /\ "gsrunner.log" \in DOMAIN config.file
    /\ flagset["log"].set
    /\ config.file["gsrunner.log"] # flagset["log"].Value
    /\ store["gsrunner.log"] = flagset["log"].Value

LastEvents(n) == SubSeq(trace, Len(trace) - n + 1, Len(trace))

\* C6: every execution of Run calls gslogger.Join exactly once, after the
\* final "stopped" message, whether the entry point returned, the entry
\* point panicked or an internal step (config load, registry open, registry
\* load) panicked before the entry point.
C6_JoinExactlyOnce ==
    /\ Count(trace, "Join") <= 1
    /\ exit # "none" =>
          /\ Count(trace, "Join") = 1
          /\ Count(trace, "I service stopped") = 1
          /\ LastEvents(2) = <<"I service stopped", "Join">>

\* Run has ended after the registry loader panicked.
C6_Witness ==
    /\ exit # "none"
    /\ fault = "loadRegistry"
    /\ Count(trace, "Join") = 1

InternalFaults == {"config", "open", "loadRegistry"}

\* C7: a fatal startup error raised inside Run (config load failure,
\* registry open failure, registry format or range error) propagates out of
\* Run, which does not return normally; only a fault of the entry point is
\* absorbed.
C7_FatalErrorsEscalate ==
    exit # "none" =>
        /\ fault \in InternalFaults => exit = "panicked"
        /\ fault = "main" => exit = "returned"

\* C8: a fault raised by the entry point is caught by Run, logged as an
\* error, followed by the "stopped" message and the log join, and Run
\* returns normally without re-raising it.
C8_EntryFaultAbsorbed ==
    exit # "none" /\ fault = "main" =>
        /\ exit = "returned"
        /\ panic = "none"
        /\ LastEvents(4) = <<"main", "E catch unknown exception",
                             "I service stopped", "Join">>

\* Run has ended after the entry point panicked.
C8_Witness ==
    /\ exit = "returned"
    /\ fault = "main"
    /\ Count(trace, "E catch unknown exception") = 1

\* The startup stage an event of the trace belongs to.
Stage(e) ==
    CASE e = "flag.Parse" -> 1
      [] e \in {"LoadJSON", "W can't load config file"} -> 2
      [] e = "Update" -> 3
      [] e \in {"SetLogDir", "NewSink", "NewFlags"} -> 4
      [] e \in {"I load registry", "os.Open", "RegistryUpdate",
                "I load registry success"} -> 5
      [] e \in {"I service started", "main"} -> 6
      [] OTHER -> 7

\* C9: the entry point is invoked at most once, and only after flag
\* parsing, config merge, flag write-back, logging setup and, when a
\* registry path is set, a successful registry load, in that order; when
\* the config load, the registry open or the registry load fails it is
\* never invoked.
C9_EntryPointAfterStartup ==
    /\ Count(trace, "main") <= 1
    /\ \A i, j \in 1..Len(trace) : i < j => Stage(trace[i]) <= Stage(trace[j])
    /\ Count(trace, "main") = 1 =>
          /\ Count(trace, "flag.Parse") = 1
          /\ Count(trace, "Update") = 1
          /\ fault \notin InternalFaults
          /\ loc.registryFile # <<>> =>
                /\ ld.pc = "done"
                /\ Count(trace, "RegistryUpdate") = 1
                /\ Count(trace, "I load registry success") = 1
    /\ fault \in InternalFaults => Count(trace, "main") = 0
    /\ ld.pc = "failed" => Count(trace, "main") = 0

\* The entry point has been invoked after a config load, the logging setup
\* and a registry load.
C9_Witness ==
    /\ Count(trace, "main") = 1
    /\ Count(trace, "LoadJSON") = 1
    /\ Count(trace, "NewSink") = 1
    /\ Count(trace, "RegistryUpdate") = 1

\* The values Run has read back, by key.
ReadBack(key) ==
    CASE key = "gsrunner.log" -> loc.logroot
      [] key = "gsrunner.log.level" -> loc.loglevel
      [] OTHER -> loc.registryFile

FlagOfKey(key) ==
    CASE key = "gsrunner.log" -> "log"
      [] key = "gsrunner.log.level" -> "level"
      [] OTHER -> "registry"

\* C10: when a loaded JSON config file sets a non-empty value for
\* gsrunner.log, gsrunner.log.level or gsrunner.registry and the flag of
\* that key is not given on the command line, the value Run reads back from
\* the store for the key is the config file's value.
C10_ConfigSuppliesPaths ==
    pc \in {"logging", "registry", "loadRegistry", "main", "deferred", "done"}
        /\ config.loaded =>
        \A key \in {"gsrunner.log", "gsrunner.log.level", "gsrunner.registry"} :
            (/\ key \in DOMAIN config.file
             /\ config.file[key].type = "string"
             /\ config.file[key].str # <<>>
             /\ ~flagset[FlagOfKey(key)].set)
                => ReadBack(key) = config.file[key].str

\* The path given with -config.
ConfigPath == flagset["config"].Value.str

\* The path ends in ".json".
JsonSuffix(path) ==
    /\ Len(path) >= 5
    /\ SubSeq(path, Len(path) - 4, Len(path)) = <<".", "j", "s", "o", "n">>

\* Run is past its config step with a -config path of another extension.
ConfigNotJson ==
    /\ pc \notin {"setup", "config"}
    /\ ConfigPath # <<>>
    /\ ~JsonSuffix(ConfigPath)

\* C11: when the -config path is non-empty and its extension is not .json,
\* Run does not call the JSON loader, emits one warning, raises no fault at
\* that step and goes on with the startup, so that the entry point is
\* invoked (unless the registry step fails afterwards).
C11_UnknownExtensionSkipped ==
    ConfigNotJson =>
        /\ Count(trace, "LoadJSON") = 0
        /\ ~config.loaded
        /\ Count(trace, "W can't load config file") = 1
        /\ fault # "config"
        /\ pc = "write" => panic = "none" /\ store = EmptyMap
        /\ exit # "none" /\ fault \notin {"open", "loadRegistry"} =>
              Count(trace, "main") = 1

\* Run has ended with a .yaml config path and the entry point was invoked.
C11_Witness ==
    /\ ConfigNotJson
    /\ exit # "none"
    /\ Count(trace, "main") = 1
    /\ Count(trace, "W can't load config file") = 1

\* ------------------------------------------------------------------------
\* Further claims about the registry loader (checked under SpecLoad)
\* ------------------------------------------------------------------------

\* Line j of the stream ends in a newline.
LineTerminated(j) ==
    j < Len(InputLines) \/ ld.stream[Len(ld.stream)] = NL

\* The lines of the stream that are not valid.
InvalidLines == {j \in 1..Len(InputLines) : ~ValidLine(InputLines[j])}

\* The first line that is not valid matches the grammar: its id is above
\* 65535.  The loader gets to read it.
FirstInvalidOutOfRange ==
    /\ InvalidLines # {}
    /\ LET j == CHOOSE x \in InvalidLines : \A y \in InvalidLines : x <= y
       IN  /\ GrammarLine(InputLines[j])
           /\ LineTerminated(j) \/ ld.endErr = "EOF"

\* C12: a line that matches NAME=ID and whose id is above 65535 (65536, or
\* a value beyond the 32-bit signed range) makes the load fail with the
\* error "id out of range", not "invalid format", and no entry with a
\* truncated id is stored or published.
C12_OutOfRangeReported ==
    LoadOver /\ FirstInvalidOutOfRange =>
        /\ ld.pc = "failed"
        /\ ld.err = "ErrRegistry" /\ ld.msg = "id out of range"
        /\ updates = <<>>
        /\ \A k \in DOMAIN ld.items :
              \E i \in 1..Len(InputLines) :
                 /\ ValidLine(InputLines[i])
                 /\ NamePart(InputLines[i]) = k
                 /\ Decimal(IdPart(InputLines[i])) = ld.items[k]

\* The number of newlines among the characters the reader has handed out.
Consumed == SubSeq(ld.stream, 1, Len(ld.stream) - Len(ld.buf))

NewlinesRead == Cardinality({i \in 1..Len(Consumed) : Consumed[i] = NL})

\* The loader has rejected a line (format, conversion or range error).
LineRejected ==
    ld.pc = "failed" /\ ld.msg \in {"invalid format", "id out of range"}

\* The stream has a line that is not valid, and the first such line ends
\* in a newline.
FirstInvalidRead ==
    /\ InvalidLines # {}
    /\ LET j == CHOOSE x \in InvalidLines : \A y \in InvalidLines : x <= y
       IN  LineTerminated(j)

\* The number of valid lines before the first line that is not valid.
GoodLinesBefore ==
    (CHOOSE x \in InvalidLines : \A y \in InvalidLines : x <= y) - 1

\* C13: the line index reported with a rejected line equals the number of
\* lines consumed (validated and stored) before it: the counter starts at 0
\* and grows only after a line has been accepted, so a bad first line is
\* reported as index 0 and a bad line after k good lines as index k.
C13_IndexCountsGoodLines ==
    /\ ld.pc = "reading" /\ ld.buf = ld.stream => ld.lines = 0
    /\ LoadOver /\ FirstInvalidRead =>
          /\ LineRejected
          /\ ld.index = GoodLinesBefore
          /\ ld.lines = GoodLinesBefore
          /\ NewlinesRead <= GoodLinesBefore + 1

\* A name occurs on two lines of the stream.
DuplicateName ==
    \E i, j \in 1..Len(InputLines) :
        i < j /\ NamePart(InputLines[i]) = NamePart(InputLines[j])

\* The last line of the stream that carries the name n.
LastLineOf(n) ==
    InputLines[CHOOSE i \in 1..Len(InputLines) :
                  /\ NamePart(InputLines[i]) = n
                  /\ \A j \in (i + 1)..Len(InputLines) :
                        NamePart(InputLines[j]) # n]

\* C15: a name on more than one valid line does not make the load fail;
\* the published mapping has one entry for it, with the id of the last such
\* line.
C15_LaterDuplicateWins ==
    LoadOver /\ ld.endErr = "EOF" /\ DuplicateName
             /\ (\A i \in 1..Len(InputLines) : ValidLine(InputLines[i]))
        => /\ ld.pc = "done"
           /\ Len(updates) = 1
           /\ \A i \in 1..Len(InputLines) :
                 LET n == NamePart(InputLines[i])
                 IN  /\ n \in DOMAIN updates[1]
                     /\ updates[1][n] = Decimal(IdPart(LastLineOf(n)))

\* The stream ends in a line without a newline.
LastUnterminated ==
    ld.stream # <<>> /\ ld.stream[Len(ld.stream)] # NL

\* C16: no content of the stream is ignored.  A final line without a
\* newline is validated too: if it is invalid the load fails, if it is valid
\* its entry is in the published mapping; reading stops only when no
\* character is left.
C16_LastLineValidated ==
    /\ ld.pc = "done" => ld.buf = <<>>
    /\ LoadOver /\ ld.endErr = "EOF" /\ LastUnterminated =>
          LET last == InputLines[Len(InputLines)]
          IN  /\ ~ValidLine(last) => ld.pc = "failed"
              /\ ld.pc = "done" =>
                    /\ Len(updates) = 1
                    /\ NamePart(last) \in DOMAIN updates[1]
                    /\ updates[1][NamePart(last)] = Decimal(IdPart(last))

\* ------------------------------------------------------------------------
\* Further claims about Run and the registrar (checked under Spec)
\* ------------------------------------------------------------------------

\* Every call of gorpc.RegistryUpdate comes before the entry point.
UpdateBeforeMain ==
    \A i, j \in 1..Len(trace) :
        trace[i] = "RegistryUpdate" /\ trace[j] = "main" => i < j

\* C14: in one execution of Run gorpc.RegistryUpdate is called at most
\* once: exactly once, with the whole mapping the loop has accumulated and
\* before the entry point, when the registry path is not empty and the load
\* succeeds; not at all when the path is empty or the open or the load
\* fails; never while the loop is still reading lines.
C14_RegistryUpdateOnce ==
    /\ Len(updates) <= 1
    /\ Count(trace, "RegistryUpdate") = Len(updates)
    /\ UpdateBeforeMain
    /\ ld.pc \in {"reading", "failed"} => updates = <<>>
    /\ loc.registryFile = <<>> => updates = <<>>
    /\ fault \in {"open", "loadRegistry"} => updates = <<>>
    /\ ld.pc = "done" => updates = <<ld.items>>
    /\ Count(trace, "main") = 1 /\ loc.registryFile # <<>> =>
          ld.pc = "done" /\ Len(updates) = 1

\* The entry point has run after a registry file was loaded and published.
C14_Witness ==
    /\ Count(trace, "main") = 1
    /\ loc.registryFile # <<>>
    /\ Len(updates) = 1
    /\ exit # "none"

\* The short names of fullname are those of the seven tables, and no short
\* name is in two tables.
TablesConsistent ==
    /\ DOMAIN runner.fullname = Declared(runner)
    /\ \A k \in Declared(runner) : Cardinality(TablesOf(runner, k)) = 1

\* A declare call that aborts changes neither the registrar nor the flags.
AbortKeepsState ==
    DeclareStep /\ call'.err # "nil" =>
        runner' = runner /\ flagset' = flagset

\* The fully-qualified names Run writes under.
WrittenKeys == {FullnameOf(runner, k) : k \in Declared(runner)}

\* After the write loops the store has one entry per declared Option, none
\* of them under the empty name.
OneEntryPerOption ==
    pc = "read" =>
        /\ "" \notin WrittenKeys
        /\ Cardinality(WrittenKeys) = Cardinality(Declared(runner))
        /\ DOMAIN store =
              WrittenKeys \cup (IF config.loaded THEN DOMAIN config.file ELSE {})

\* C17: a declare call that aborts leaves the registrar unchanged, and after
\* any sequence of declare calls the short names of the mapping short name
\* -> fully-qualified name are the disjoint union of the key sets of the
\* seven tables, so that Run writes one store entry per declared Option and
\* none under an empty or missing fully-qualified name.
C17_AbortLeavesRegistrar ==
    [](TablesConsistent /\ OneEntryPerOption) /\ [][AbortKeepsState]_vars

====
